---- MODULE Spec2Model ----
(***************************************************************************)
(* State-machine model of the cross-chat relay bot:                        *)
(*   - CrossChatBot.on_message: source check, per-user cooldown gate,      *)
(*     message log, ban gate, moderation check, hand-over to the fan-out;  *)
(*   - CrossChatBot.process_web_commands: the poll / claim / dispatch      *)
(*     cycle over the web_panel_commands collection;                       *)
(*   - the /ban and /unban slash commands;                                 *)
(*   - PerformanceCache: the TTL caches of relay channels and of bans.     *)
(* Time is the wall clock in whole seconds.                                *)
(***************************************************************************)
EXTENDS Integers, Sequences, FiniteSets, TLC

(* ------------------------------ bounds --------------------------------- *)

\* Last clock value of a run of the relay and queue specifications.
MaxTime == 8

\* Most handler invocations followed for one command.
MaxCalls == 2

\* The cooldown table is cleaned when it tracks more than 1000 users and the
\* cleanup removes the 200 oldest entries (src/bot.py:1502-1506).  The model
\* keeps the shape of that rule (remove the oldest CooldownEvictCount entries
\* once more than CooldownHighWater users are tracked) at a size three users
\* can reach.
CooldownHighWater == 2

CooldownEvictCount == 1

\* Clock of the cache specifications: time.time() at the first step, and
\* the last value a run follows.
CacheStart == 1000

\* The duration of a /ban in the cache specifications, in seconds: half a
\* TTL, standing for the hours of the command.
BanSeconds == 450

CacheEnd == 2351

\* The fetch of a poll cycle takes the ten oldest pending documents
\* (src/bot.py:1849); the model keeps the rule at a size that two queued
\* commands fill.
FetchLimit == 2

(* --------------------------- program constants ------------------------- *)

crosschat_cooldown_duration == 7

\* PerformanceCache._crosschat_channels_ttl and PerformanceCache._bans_ttl
crosschat_channels_ttl == 900

bans_ttl == 900

Users == {"u1", "u2", "u3"}

Channels == {"c1", "c2", "c3"}

\* What the moderation-policy evaluator can answer; "none" is a bot that has
\* no evaluator attached (the hasattr test of on_message fails), "raises" a
\* check that raises.
PolicyActions == {"none", "allow", "delete", "warn", "raises"}

\* What cross_chat_manager.process can return to on_message; "nothing" is a
\* falsy result, "raises" a call that raises.
ProcessResults == {"processed", "banned", "server_banned", "blocked",
                   "system_disabled", "failed", "nothing", "raises"}

VARIABLES
    now,                  \* the wall clock
    crosschat_cooldowns,  \* bot.crosschat_cooldowns, in dict (insertion) order
    storeChannels,        \* channel ids the store lists as relay channels
    storeBanned,          \* user ids in the store's banned_users collection
    storeBannedGuilds,    \* guild ids the store lists as banned servers
    storeLog,             \* number of messages written to the message log (capped)
    lastMsg,              \* what on_message did with the latest message
    lastAccept,           \* per user: time the cooldown gate last accepted, or -1
    evictedSince,         \* users whose entry the cleanup removed since then
    untypedOlder,         \* web_panel_commands: older pending documents without a type
    cmdType,              \* web_panel_commands: command_type of each document
    cmdUser,              \* web_panel_commands: user_id of each document, "" for none
    cmdStatus,            \* web_panel_commands: status of each document
    cmdError,             \* web_panel_commands: error_message of each document
    processing_commands,  \* bot.processing_commands, the dedup set
    command_lock,         \* holder of bot.command_lock, or "free"
    pc,                   \* per poll task: where it is in its cycle
    batch,                \* per poll task: fetched commands not yet looked at
    cur,                  \* per poll task: the command being dispatched
    hres,                 \* per poll task: how the dispatch went
    handlerCalls,         \* per command: handler invocations so far
    banHandled,           \* users banned by a handled ban command, not unbanned since
    cmdResult,            \* web_panel_commands: result recorded in each document
    cmdReached,           \* per command: channels its announcement reached, or -1
    crosschat_channels,          \* PerformanceCache._crosschat_channels
    crosschat_channels_updated,  \* PerformanceCache._crosschat_channels_updated
    banned_users,                \* PerformanceCache._banned_users
    banned_servers,              \* PerformanceCache._banned_servers
    bans_updated,                \* PerformanceCache._bans_updated
    lastRead,             \* what the latest read of a cache returned
    lastOp,               \* the latest operation, when it was a mutation
    lastEdit,             \* what on_message_edit did with the latest edit
    banned_data,          \* the service ban list: ban entries in list order
    lastBan,              \* what the latest ban command did to the ban list
    storeBanUntil,        \* per user: when the stored ban runs out, -1 for none
    cache_lock,           \* holder of PerformanceCache._lock, or "free"
    cachePc,              \* per thread: the store read it is in, or "idle"
    announcement          \* the call of send_crosschat_announcement under way

relayVars == <<now, crosschat_cooldowns, storeChannels, storeBannedGuilds,
               storeLog, lastMsg, lastAccept, evictedSince>>

queueVars == <<untypedOlder, cmdType, cmdUser, cmdStatus, cmdError,
               processing_commands, command_lock, pc, batch, cur, hres,
               handlerCalls, banHandled, cmdResult, cmdReached>>

cacheVars == <<crosschat_channels, crosschat_channels_updated, banned_users,
               banned_servers, bans_updated, lastRead, lastOp>>

serviceVars == <<lastEdit, banned_data, lastBan, storeBanUntil>>

lockVars == <<cache_lock, cachePc>>

vars == <<relayVars, storeBanned, queueVars, cacheVars, serviceVars, lockVars,
          announcement>>

\* What on_message_edit did with an edit.  propagated: the edit was handed
\* to cross_chat_manager.process_edit; author: who edited, for a propagated
\* edit.
NoEdit == [outcome |-> "none", propagated |-> FALSE, reaction |-> "none",
           author |-> ""]

\* What execute_ban_command did: replaced tells whether an entry of the
\* same user was in the list before, audited whether the moderation action
\* was written.
NoBan == [user |-> "", replaced |-> FALSE, audited |-> FALSE]

\* What on_message did with a message.  relayed: the message was handed to
\* cross_chat_manager.process; subject: who of author and guild the store
\* listed as banned when the message passed the cooldown gate; policy: the
\* answer of the moderation check, "none" when the check was not reached;
\* raised: the handler ended with an exception instead of returning.
NoMsg == [outcome |-> "none", deleted |-> FALSE, notified |-> FALSE, logged |-> FALSE,
          relayed |-> FALSE, reaction |-> "none", subject |-> "none",
          policy |-> "none", raised |-> FALSE]

(* --------------------------- cooldown table ---------------------------- *)

HasEntry(cd, u) == \E i \in 1..Len(cd) : cd[i].user = u

EntryOf(cd, u) == CHOOSE i \in 1..Len(cd) : cd[i].user = u

\* Mutant: the gate looks at the newest entry of the table, whoever wrote it.
LastSeenAny(cd, u) == cd[Len(cd)].ts

\* self.crosschat_cooldowns[user_id]
LastSeen(cd, u) == cd[EntryOf(cd, u)].ts

TrackedUsers(cd) == {cd[i].user : i \in 1..Len(cd)}

\* Mutant: the comparison admits equality, one second too long a cooldown.
CooldownRejectsInclusive(cd, u, t) ==
    /\ HasEntry(cd, u)
    /\ t - LastSeen(cd, u) <= crosschat_cooldown_duration

\* if user_id in cooldowns and current_time - cooldowns[user_id] < duration
CooldownRejects(cd, u, t) ==
    /\ HasEntry(cd, u)
    /\ t - LastSeen(cd, u) < crosschat_cooldown_duration

\* self.crosschat_cooldowns[user_id] = current_time: an existing key keeps
\* its place in the dict, a new key goes last.
Touch(cd, u, t) ==
    IF HasEntry(cd, u)
    THEN [cd EXCEPT ![EntryOf(cd, u)].ts = t]
    ELSE Append(cd, [user |-> u, ts |-> t])

\* Mutant: among equal timestamps the later entry of the dict sorts first.
RankReversed(cd, i) ==
    Cardinality({j \in 1..Len(cd) :
                    \/ cd[j].ts < cd[i].ts
                    \/ (cd[j].ts = cd[i].ts /\ j > i)})

\* Position (from 0) of entry i in sorted(items, key=timestamp); sorted is
\* stable, so equal timestamps stay in dict order.
Rank(cd, i) ==
    Cardinality({j \in 1..Len(cd) :
                    \/ cd[j].ts < cd[i].ts
                    \/ (cd[j].ts = cd[i].ts /\ j < i)})

\* Mutant: the cleanup deletes the entries that sort last.
SurvivorsOldest(cd) ==
    {i \in 1..Len(cd) : Rank(cd, i) < Len(cd) - CooldownEvictCount}

\* for old_user_id, _ in sorted_items[:200]: del ...
Survivors(cd) == {i \in 1..Len(cd) : Rank(cd, i) >= CooldownEvictCount}

\* The cleanup: with more than the high-water mark tracked, delete the
\* CooldownEvictCount entries that sort first; the rest keep their order.
Cleanup(cd) ==
    IF Len(cd) > CooldownHighWater
    THEN LET keep == Survivors(cd)
             nth(k) == CHOOSE i \in keep :
                          Cardinality({j \in keep : j < i}) = k - 1
         IN  [k \in 1..Cardinality(keep) |-> cd[nth(k)]]
    ELSE cd

\* The gate's decision on a message of u at time t in the run where only
\* u sends messages: the table holds at most u's entry, whose timestamp is
\* the time of u's last accepted message there.
SoloRejects(solo, u, t) ==
    CooldownRejects(IF solo[u] < 0 THEN <<>>
                    ELSE <<[user |-> u, ts |-> solo[u]]>>, u, t)

(* ------------------------------ the store ------------------------------ *)

\* db_handler.is_user_banned(user_id): a read of the banned_users collection.
IsUserBanned(u) == u \in storeBanned

\* db_handler.get_crosschat_channels(): the registered relay channels.
IsRelayChannel(ch) == ch \in storeChannels

\* The guild a channel belongs to: c1 and c3 are channels of one guild.
GuildOf(ch) ==
    CASE ch = "c1" -> "g1"
      [] ch = "c2" -> "g2"
      [] OTHER     -> "g1"

\* The store lists the guild as a banned server.
IsGuildBanned(g) == g \in storeBannedGuilds

\* Who of the author and the guild of a message is banned.
BanSubject(u, ch) ==
    CASE IsUserBanned(u) /\ IsGuildBanned(GuildOf(ch))  -> "both"
      [] IsUserBanned(u)                                -> "user"
      [] IsGuildBanned(GuildOf(ch))                     -> "guild"
      [] OTHER                                          -> "none"

\* What cross_chat_manager.process can return for a message in ch: it
\* reports a banned server itself.
FanOutResults(ch) ==
    IF IsGuildBanned(GuildOf(ch)) THEN {"server_banned"} ELSE ProcessResults

(* ------------------------------ on_message ----------------------------- *)

\* Reaction on_message adds for a result of cross_chat_manager.process.
ReactionFor(result) ==
    CASE result \in {"banned", "server_banned"}   -> "no_entry"
      [] result \in {"blocked", "system_disabled"} -> "warning"
      [] result = "processed"                      -> "check"
      [] result = "failed"                         -> "cross"
      [] OTHER                                     -> "none"

\* Mutant: a rejected message refreshes the sender's timestamp.
CooldownAfterReject(cd, u, t) == Touch(cd, u, t)

\* The cooldown table after the gate has rejected a message: the branch
\* returns before the timestamp update.
CooldownOnReject(cd, u, t) == cd

\* The cooldown table after the gate has accepted a message at time t.
CooldownOnAccept(cd, u, t) == Cleanup(Touch(cd, u, t))

\* Mutant: the ban check is skipped.
BanGateOpen(u) == FALSE

\* if self.db_handler.is_user_banned(str(message.author.id))
BanGate(u) == IsUserBanned(u)

\* Mutant: the source check lets every channel through.
SourceCheckOpen(ch) == TRUE

\* if int(message.channel.id) not in crosschat_channels: return
SourceCheck(ch) == IsRelayChannel(ch)

\* The reaction the message carries when on_message is done: none when
\* add_reaction raised (caught by the handler around the fan-out).
Acknowledged(result, reactOk) ==
    IF reactOk THEN ReactionFor(result) ELSE "none"

\* await message.delete() of the ban check stands outside every try block:
\* a deletion that fails leaves on_message with the exception.
DeleteRaises(delOk) == ~delOk

\* if violation_result.get('action') == 'delete': return
PolicyStops(policy) == policy = "delete"

\* Mutant: the ban check comes first, a banned author's message is not
\* handed to the message log.
LogSkippedForBanned(banned) == ~banned

\* db_handler.log_crosschat_message(message_data) is called before the ban
\* check, whether or not the author is banned.
LogReached(banned) == TRUE

\* One message through on_message.  u: author, ch: channel, isBot: the
\* author is a bot or the message is a DM, policy: the moderation answer,
\* result: what the fan-out manager returns, delOk / dmOk: whether deleting
\* the message and the private notice succeed, reactOk: whether adding the
\* reaction succeeds, logOk: whether the write to the message log succeeds.
OnMessage(u, ch, isBot, policy, result, delOk, dmOk, reactOk, logOk) ==
    /\ IF isBot \/ ~SourceCheck(ch)
       THEN \* ignored: return before anything is touched
            /\ lastMsg' = [NoMsg EXCEPT !.outcome =
                              IF isBot THEN "ignored_author"
                                       ELSE "ignored_channel"]
            /\ UNCHANGED <<crosschat_cooldowns, storeLog, lastAccept,
                           evictedSince>>
       ELSE IF CooldownRejects(crosschat_cooldowns, u, now)
       THEN \* rate limited: delete, tell the author, return
            /\ lastMsg' = [NoMsg EXCEPT !.outcome = "rate_limited",
                                        !.deleted = delOk,
                                        !.notified = delOk /\ dmOk]
            /\ crosschat_cooldowns' =
                   CooldownOnReject(crosschat_cooldowns, u, now)
            /\ UNCHANGED <<storeLog, lastAccept, evictedSince>>
       ELSE \* accepted by the gate: timestamp, cleanup, log, ban, policy, relay
            /\ crosschat_cooldowns' =
                   CooldownOnAccept(crosschat_cooldowns, u, now)
            /\ lastAccept' = [lastAccept EXCEPT ![u] = now]
            /\ evictedSince' =
                   (evictedSince \ {u})
                   \cup (TrackedUsers(Touch(crosschat_cooldowns, u, now))
                         \ TrackedUsers(crosschat_cooldowns'))
            /\ storeLog' = IF LogReached(BanGate(u)) /\ logOk /\ storeLog < 1
                           THEN storeLog + 1 ELSE storeLog
            /\ lastMsg' =
                 IF BanGate(u)
                 THEN [NoMsg EXCEPT !.outcome = "banned",
                                    !.logged = LogReached(TRUE),
                                    !.deleted = delOk,
                                    !.notified = delOk /\ dmOk,
                                    !.subject = BanSubject(u, ch),
                                    !.raised = DeleteRaises(delOk)]
                 ELSE IF PolicyStops(policy)
                 THEN [NoMsg EXCEPT !.outcome = "blocked", !.logged = TRUE,
                                    !.subject = BanSubject(u, ch),
                                    !.policy = policy]
                 ELSE [NoMsg EXCEPT !.outcome = "relayed", !.logged = TRUE,
                                    !.relayed = TRUE,
                                    !.reaction = Acknowledged(result, reactOk),
                                    !.subject = BanSubject(u, ch),
                                    !.policy = policy]
    /\ UNCHANGED <<lockVars, announcement, now, storeChannels, storeBanned,
                   storeBannedGuilds, queueVars, serviceVars, cacheVars>>

(* ---------------------------- on_message_edit -------------------------- *)

\* Message contents before and after an edit.
Contents == {"a", "b"}

\* What cross_chat_manager.process_edit can return; "nothing" is a falsy
\* result, "raises" a call that raises.
EditResults == {"processed", "failed", "nothing", "raises"}

\* Reaction on_message_edit adds for a result of process_edit.
EditReactionFor(result) ==
    CASE result = "processed" -> "pencil"
      [] result = "failed"    -> "cross"
      [] OTHER                -> "none"

\* Mutant: every edit event counts as a change of content.
ContentAlways(before, after) == TRUE

\* if before.content == after.content: return
ContentChanged(before, after) == before # after

\* One edit through on_message_edit.  u: author, ch: channel, isBot: the
\* author is a bot or the message is a DM, before / after: the content,
\* result: what process_edit returns, reactOk: whether adding the reaction
\* succeeds.
OnMessageEdit(u, ch, isBot, before, after, result, reactOk) ==
    /\ lastEdit' =
          IF isBot
          THEN [NoEdit EXCEPT !.outcome = "ignored_author"]
          ELSE IF ~ContentChanged(before, after)
          THEN [NoEdit EXCEPT !.outcome = "unchanged"]
          ELSE IF ~SourceCheck(ch)
          THEN [NoEdit EXCEPT !.outcome = "ignored_channel"]
          ELSE [NoEdit EXCEPT !.outcome = "propagated",
                              !.propagated = TRUE,
                              !.author = u,
                              !.reaction = IF reactOk
                                           THEN EditReactionFor(result)
                                           ELSE "none"]
    /\ UNCHANGED <<lockVars, announcement, relayVars, storeBanned, queueVars,
                   cacheVars, banned_data, lastBan, storeBanUntil>>

Tick ==
    /\ now < MaxTime
    /\ now' = now + 1
    /\ UNCHANGED <<lockVars, announcement, crosschat_cooldowns,
                   storeChannels, storeBanned, storeBannedGuilds, storeLog,
                   lastMsg, lastAccept, evictedSince, queueVars, serviceVars,
                   cacheVars>>

NoOp == [op |-> "other", arg |-> ""]

\* /ban: db_handler.ban_user(...) records the ban with its duration;
\* logged = FALSE is a store write that failed.  The ban cache is not
\* touched.
SlashBan(u, logged) ==
    /\ storeBanned' = IF logged THEN storeBanned \cup {u} ELSE storeBanned
    /\ storeBanUntil' =
          IF logged THEN [storeBanUntil EXCEPT ![u] = now + BanSeconds]
                    ELSE storeBanUntil
    /\ lastOp' = IF logged THEN [op |-> "ban", arg |-> u] ELSE NoOp
    /\ UNCHANGED <<lockVars, announcement, relayVars, queueVars, lastEdit,
                   banned_data, lastBan, crosschat_channels,
                   crosschat_channels_updated, banned_servers, banned_users,
                   bans_updated, lastRead>>

\* /unban: db_handler.unban_user(...) removes the ban.
SlashUnban(u, logged) ==
    /\ storeBanned' = IF logged THEN storeBanned \ {u} ELSE storeBanned
    /\ storeBanUntil' =
          IF logged THEN [storeBanUntil EXCEPT ![u] = -1] ELSE storeBanUntil
    /\ lastOp' = IF logged THEN [op |-> "unban", arg |-> u] ELSE NoOp
    /\ UNCHANGED <<lockVars, announcement, relayVars, queueVars, lastEdit,
                   banned_data, lastBan, crosschat_channels,
                   crosschat_channels_updated, banned_servers, banned_users,
                   bans_updated, lastRead>>

\* The stored ban of u has run out: its end is set and lies in the past.
BanExpired(u, t) == storeBanUntil[u] # -1 /\ storeBanUntil[u] < t

Ban == \E u \in Users, logged \in BOOLEAN : SlashBan(u, logged)

Unban == \E u \in Users, logged \in BOOLEAN : SlashUnban(u, logged)

(* --------------------------- service ban list -------------------------- *)

\* duration of a ban command in hours; -1 is a permanent ban.
BanDurations == {-1, 1, 24}

\* ban_until = datetime.now() + timedelta(hours=duration), None (-1 here)
\* for a permanent ban.
BanUntil(t, duration) ==
    IF duration = -1 THEN -1 ELSE t + duration * 3600

\* Mutant: the entries of the user stay in the list.
KeepsUser(list, u) == list

\* [b for b in banned_data['banned_users'] if b['user_id'] != str(user_id)]
WithoutUser(list, u) == SelectSeq(list, LAMBDA b : b.user_id # u)

\* The entries of u in the list.
EntriesOf(list, u) == {i \in DOMAIN list : list[i].user_id = u}

\* The ban list the store holds once a handler has built list.
Saved(list) == list

\* execute_ban_command: any entry of the user is taken out of the list, the
\* new entry is appended, and the moderation action is written.
execute_ban_command(u, duration) ==
    /\ banned_data' =
          Saved(Append(WithoutUser(banned_data, u),
                       [user_id |-> u, ban_until |-> BanUntil(now, duration)]))
    /\ lastBan' = [user |-> u, replaced |-> EntriesOf(banned_data, u) # {},
                   audited |-> TRUE]
    /\ UNCHANGED <<lockVars, announcement, relayVars, storeBanned, queueVars,
                   cacheVars, lastEdit, storeBanUntil>>

\* execute_unban_command: the entries of the user are taken out of the list.
execute_unban_command(u) ==
    /\ banned_data' = Saved(WithoutUser(banned_data, u))
    /\ lastBan' = NoBan
    /\ UNCHANGED <<lockVars, announcement, relayVars, storeBanned, queueVars,
                   cacheVars, lastEdit, storeBanUntil>>

(* --------------------------- PerformanceCache -------------------------- *)

\* Threads that call into the cache.
Threads == {"t1", "t2"}

\* A read records what it returned, whether it went to the store (refresh:
\* "none", "ok" or "failed") and whether it came right after an
\* invalidation, of a cache within its TTL ("fresh") or past it ("stale").
NoRead == [op |-> "none", value |-> {}, refresh |-> "none", after |-> "other"]

AfterInvalidate(o) == IF o.op = "invalidate" THEN o.arg ELSE "other"

\* Mutant: the cache also refreshes when exactly the TTL has passed.
ExpiredInclusive(t, updated, ttl) == (t - updated) >= ttl

\* if (current_time - updated) > ttl
Expired(t, updated, ttl) == (t - updated) > ttl

\* How a read went to the store.
RefreshKind(stale, ok) ==
    IF ~stale THEN "none" ELSE IF ok THEN "ok" ELSE "failed"

\* Mutant: a failed refresh leaves the cache empty.
RefreshedChannelsCleared(ok) == IF ok THEN storeChannels ELSE {}

\* _refresh_crosschat_channels: the set becomes what the store lists and
\* the refresh time is the clock; ok = FALSE is a store read that raises,
\* which is caught and leaves both as they were.
RefreshedChannels(ok) == IF ok THEN storeChannels ELSE crosschat_channels

\* Mutant: the refresh time is set whether or not the store could be read.
RefreshedAtAlways(ok) == now

RefreshedChannelsAt(ok) == IF ok THEN now ELSE crosschat_channels_updated

\* get_crosschat_channels: refresh when the TTL has run out, return a copy.
get_crosschat_channels(refreshOk) ==
    LET stale == Expired(now, crosschat_channels_updated, crosschat_channels_ttl)
    IN  /\ crosschat_channels' =
              IF stale THEN RefreshedChannels(refreshOk) ELSE crosschat_channels
        /\ crosschat_channels_updated' =
              IF stale THEN RefreshedChannelsAt(refreshOk)
                       ELSE crosschat_channels_updated
        /\ lastRead' = [op |-> "channels", value |-> crosschat_channels',
                        refresh |-> RefreshKind(stale, refreshOk),
                        after |-> AfterInvalidate(lastOp)]
        /\ lastOp' = [op |-> "get", arg |-> ""]
        /\ UNCHANGED <<lockVars, announcement, relayVars, storeBanned,
                       queueVars, serviceVars, banned_servers, banned_users,
                       bans_updated>>

\* add_crosschat_channel: self._crosschat_channels.add(channel_id)
add_crosschat_channel(c) ==
    /\ crosschat_channels' = crosschat_channels \cup {c}
    /\ lastOp' = [op |-> "add", arg |-> c]
    /\ UNCHANGED <<lockVars, announcement, relayVars, storeBanned, queueVars,
                   serviceVars, crosschat_channels_updated, banned_servers,
                   banned_users, bans_updated, lastRead>>

\* remove_crosschat_channel: self._crosschat_channels.discard(channel_id)
remove_crosschat_channel(c) ==
    /\ crosschat_channels' = crosschat_channels \ {c}
    /\ lastOp' = [op |-> "remove", arg |-> c]
    /\ UNCHANGED <<lockVars, announcement, relayVars, storeBanned, queueVars,
                   serviceVars, crosschat_channels_updated, banned_servers,
                   banned_users, bans_updated, lastRead>>

\* Mutant: invalidation leaves the refresh time alone.
InvalidateKeeps(updated) == updated

\* self._crosschat_channels_updated = 0, self._bans_updated = 0
Invalidated(updated) == 0

\* invalidate_crosschat_channels; the operation is recorded with whether
\* the cache was within its TTL ("fresh") when it was invalidated.
invalidate_crosschat_channels ==
    /\ crosschat_channels_updated' = Invalidated(crosschat_channels_updated)
    /\ lastOp' = [op |-> "invalidate",
                  arg |-> IF Expired(now, crosschat_channels_updated,
                                     crosschat_channels_ttl)
                          THEN "stale" ELSE "fresh"]
    /\ UNCHANGED <<lockVars, announcement, relayVars, storeBanned, queueVars,
                   serviceVars, crosschat_channels, banned_servers,
                   banned_users, bans_updated, lastRead>>

\* _refresh_bans: the set becomes the users the store lists as banned.
RefreshedBans(ok) == IF ok THEN storeBanned ELSE banned_users

\* Mutant: the refresh replaces the set of users only.
RefreshedServersKept(ok) == banned_servers

\* ... and the other set the guilds it lists as banned, in the same call.
RefreshedServers(ok) == IF ok THEN storeBannedGuilds ELSE banned_servers

RefreshedBansAt(ok) == IF ok THEN now ELSE bans_updated

\* get_banned_users: refresh when the TTL has run out, return a copy.
get_banned_users(refreshOk) ==
    LET stale == Expired(now, bans_updated, bans_ttl)
    IN  /\ banned_users' = IF stale THEN RefreshedBans(refreshOk) ELSE banned_users
        /\ banned_servers' =
              IF stale THEN RefreshedServers(refreshOk) ELSE banned_servers
        /\ bans_updated' = IF stale THEN RefreshedBansAt(refreshOk) ELSE bans_updated
        /\ lastRead' = [op |-> "banned_users", value |-> banned_users',
                        refresh |-> RefreshKind(stale, refreshOk),
                        after |-> AfterInvalidate(lastOp)]
        /\ lastOp' = [op |-> "get", arg |-> ""]
        /\ UNCHANGED <<lockVars, announcement, relayVars, storeBanned,
                       queueVars, serviceVars, crosschat_channels,
                       crosschat_channels_updated>>

\* get_banned_servers: the same refresh, the other set is returned.
get_banned_servers(refreshOk) ==
    LET stale == Expired(now, bans_updated, bans_ttl)
    IN  /\ banned_users' = IF stale THEN RefreshedBans(refreshOk) ELSE banned_users
        /\ banned_servers' =
              IF stale THEN RefreshedServers(refreshOk) ELSE banned_servers
        /\ bans_updated' = IF stale THEN RefreshedBansAt(refreshOk) ELSE bans_updated
        /\ lastRead' = [op |-> "banned_servers", value |-> banned_servers',
                        refresh |-> RefreshKind(stale, refreshOk),
                        after |-> AfterInvalidate(lastOp)]
        /\ lastOp' = [op |-> "get", arg |-> ""]
        /\ UNCHANGED <<lockVars, announcement, relayVars, storeBanned,
                       queueVars, serviceVars, crosschat_channels,
                       crosschat_channels_updated>>

\* invalidate_bans: self._bans_updated = 0
invalidate_bans ==
    /\ bans_updated' = Invalidated(bans_updated)
    /\ lastOp' = NoOp
    /\ UNCHANGED <<lockVars, announcement, relayVars, storeBanned, queueVars,
                   serviceVars, crosschat_channels,
                   crosschat_channels_updated, banned_servers, banned_users,
                   lastRead>>

\* The readers thread by thread.  "with self._lock" is entered by a thread
\* that finds the lock free; a reader whose cache is within its TTL copies
\* the set and leaves the lock in the same step.
LockFreeFor(t) == cachePc[t] = "idle" /\ cache_lock = "free"

\* get_crosschat_channels up to the store read of its refresh, which it
\* calls inside its "with self._lock" block: the lock is t's for as long
\* as the read takes.
GetChannelsEnter(t) ==
    LET stale == Expired(now, crosschat_channels_updated, crosschat_channels_ttl)
    IN  /\ LockFreeFor(t)
        /\ IF stale
           THEN /\ cache_lock' = t
                /\ cachePc' = [cachePc EXCEPT ![t] = "channels"]
                /\ UNCHANGED <<lastRead, lastOp>>
           ELSE /\ lastRead' = [op |-> "channels", value |-> crosschat_channels,
                                refresh |-> "none",
                                after |-> AfterInvalidate(lastOp)]
                /\ lastOp' = [op |-> "get", arg |-> ""]
                /\ UNCHANGED lockVars
        /\ UNCHANGED <<announcement, relayVars, storeBanned, queueVars, serviceVars,
                       crosschat_channels, crosschat_channels_updated,
                       banned_users, banned_servers, bans_updated>>

\* ... and from the end of the store read to the return.
GetChannelsReturn(t, refreshOk) ==
    /\ cachePc[t] = "channels"
    /\ crosschat_channels' = RefreshedChannels(refreshOk)
    /\ crosschat_channels_updated' = RefreshedChannelsAt(refreshOk)
    /\ lastRead' = [op |-> "channels", value |-> crosschat_channels',
                    refresh |-> RefreshKind(TRUE, refreshOk),
                    after |-> AfterInvalidate(lastOp)]
    /\ lastOp' = [op |-> "get", arg |-> ""]
    /\ cache_lock' = "free"
    /\ cachePc' = [cachePc EXCEPT ![t] = "idle"]
    /\ UNCHANGED <<announcement, relayVars, storeBanned, queueVars,
                   serviceVars, banned_users, banned_servers, bans_updated>>

\* get_banned_users up to the store read of its refresh.
GetBansEnter(t) ==
    LET stale == Expired(now, bans_updated, bans_ttl)
    IN  /\ LockFreeFor(t)
        /\ IF stale
           THEN /\ cache_lock' = t
                /\ cachePc' = [cachePc EXCEPT ![t] = "bans"]
                /\ UNCHANGED <<lastRead, lastOp>>
           ELSE /\ lastRead' = [op |-> "banned_users", value |-> banned_users,
                                refresh |-> "none",
                                after |-> AfterInvalidate(lastOp)]
                /\ lastOp' = [op |-> "get", arg |-> ""]
                /\ UNCHANGED lockVars
        /\ UNCHANGED <<announcement, relayVars, storeBanned, queueVars, serviceVars,
                       crosschat_channels, crosschat_channels_updated,
                       banned_users, banned_servers, bans_updated>>

\* ... and from the end of the store read to the return.
GetBansReturn(t, refreshOk) ==
    /\ cachePc[t] = "bans"
    /\ banned_users' = RefreshedBans(refreshOk)
    /\ banned_servers' = RefreshedServers(refreshOk)
    /\ bans_updated' = RefreshedBansAt(refreshOk)
    /\ lastRead' = [op |-> "banned_users", value |-> banned_users',
                    refresh |-> RefreshKind(TRUE, refreshOk),
                    after |-> AfterInvalidate(lastOp)]
    /\ lastOp' = [op |-> "get", arg |-> ""]
    /\ cache_lock' = "free"
    /\ cachePc' = [cachePc EXCEPT ![t] = "idle"]
    /\ UNCHANGED <<announcement, relayVars, storeBanned, queueVars, serviceVars,
                   crosschat_channels, crosschat_channels_updated>>

\* The relay channels of c's guild among those the cache returned.
ExistingChannels(seen, c) == {d \in seen : GuildOf(d) = GuildOf(c)}

\* db_handler.add_crosschat_channel(...) registers the channel in the store.
Enabled(channels, c) == channels \cup {c}

\* /setup enable.  slowOk: the channel's slowmode is between 5 and 10 s,
\* else the command ends at once.  The command reads the channel cache
\* (refreshOk as in get_crosschat_channels) and looks at the first channel
\* of the guild it finds there, first; when that is c itself it answers
\* "already enabled" and ends, otherwise it registers c in the store
\* (logged = FALSE is a write that failed).
SetupEnable(c, slowOk, first, refreshOk, logged) ==
    LET stale == Expired(now, crosschat_channels_updated, crosschat_channels_ttl)
        seen == IF stale THEN RefreshedChannels(refreshOk)
                         ELSE crosschat_channels
        existing == ExistingChannels(seen, c)
    IN  /\ existing # {} => first \in existing
        /\ crosschat_channels' = IF slowOk THEN seen ELSE crosschat_channels
        /\ crosschat_channels_updated' =
              IF slowOk /\ stale THEN RefreshedChannelsAt(refreshOk)
                                 ELSE crosschat_channels_updated
        /\ storeChannels' =
              IF slowOk /\ ~(existing # {} /\ first = c) /\ logged
              THEN Enabled(storeChannels, c)
              ELSE storeChannels
        /\ lastOp' = NoOp
        /\ UNCHANGED <<lockVars, announcement, now, crosschat_cooldowns,
                       storeLog, lastMsg, lastAccept, evictedSince,
                       storeBanned, storeBannedGuilds, queueVars,
                       serviceVars, banned_servers, banned_users,
                       bans_updated, lastRead>>

\* /setup disable: crosschat_channels.update_one(..., active: False)
SetupDisable(c, logged) ==
    /\ storeChannels' = IF logged THEN storeChannels \ {c} ELSE storeChannels
    /\ lastOp' = NoOp
    /\ UNCHANGED <<lockVars, announcement, now, crosschat_cooldowns,
                   storeLog, lastMsg, lastAccept, evictedSince, storeBanned,
                   storeBannedGuilds, queueVars, serviceVars,
                   crosschat_channels, crosschat_channels_updated,
                   banned_servers, banned_users, bans_updated, lastRead>>

\* The clock of the cache specifications moves by half a TTL or a second
\* more, so that exactly the TTL and one second past it both come up.
CacheTick(d) ==
    /\ now + d <= CacheEnd
    /\ now' = now + d
    /\ lastOp' = NoOp
    /\ UNCHANGED <<lockVars, announcement, crosschat_cooldowns,
                   storeChannels, storeBanned, storeBannedGuilds, storeLog,
                   lastMsg, lastAccept, evictedSince, queueVars, serviceVars,
                   crosschat_channels, crosschat_channels_updated,
                   banned_servers, banned_users, bans_updated, lastRead>>

(* ------------------------ process_web_commands ------------------------- *)

\* Tasks that run process_web_commands (on_ready starts the task again when
\* the earlier one is done); they contend for command_lock.
Pollers == {"p1", "p2"}

CommandIds == {1, 2}

\* command_type values: the three the dispatcher knows, one it does not
\* know, and a document without a type.
CommandTypes == {"announcement", "ban", "unban", "purge", ""}

KnownTypes == {"announcement", "ban", "unban"}

\* user_id in the payload of the ban and unban commands.
Target == "u1"

Terminal == {"completed", "failed"}

\* find({"status": "pending"}).sort("created_at", 1).limit(10): the pending
\* documents, oldest first (ids are in creation order).
RECURSIVE PendingFrom(_)
PendingFrom(i) ==
    IF i \notin CommandIds
    THEN <<>>
    ELSE IF cmdStatus[i] = "pending"
         THEN <<i>> \o PendingFrom(i + 1)
         ELSE PendingFrom(i + 1)

\* The older pending documents without a command_type; the loop knows them
\* by nothing but that, and the model writes 0 for each.
Untyped == 0

OlderDocs == [i \in 1..untypedOlder |-> Untyped]

\* .limit(10)
Limit(docs, n) == SubSeq(docs, 1, IF Len(docs) < n THEN Len(docs) ELSE n)

\* The batch of a cycle: the oldest pending documents, up to the limit.
Fetched == Limit(OlderDocs \o PendingFrom(1), FetchLimit)

\* Mutant: the lock is taken without waiting for it to be free.
LockIgnored(lock) == TRUE

\* async with self.command_lock: the task goes on once the lock is free.
LockFree(lock) == lock = "free"

\* async with self.command_lock, then the fetch.  fetchOk = FALSE is a find
\* that raises, or a store that is not available: the batch is empty.
PollStart(p, fetchOk) ==
    /\ pc[p] = "idle"
    /\ LockFree(command_lock)
    /\ command_lock' = p
    /\ pc' = [pc EXCEPT ![p] = "iterating"]
    /\ batch' = [batch EXCEPT ![p] = IF fetchOk THEN Fetched ELSE <<>>]
    /\ UNCHANGED <<lockVars, announcement, relayVars, storeBanned,
                   untypedOlder, cmdType, cmdUser, cmdStatus, cmdError,
                   processing_commands, cur, hres, handlerCalls, banHandled,
                   cmdResult, cmdReached, cacheVars, serviceVars>>

\* update_one({"_id": id}, {"$set": {"status": st, ...}}); ok = FALSE is a
\* write that raises or a store that is not available.
WriteStatus(status, id, st, ok) ==
    IF ok THEN [status EXCEPT ![id] = st] ELSE status

\* Mutant: the id is not recorded in the dedup set.
ClaimForgets(set, id) == set

\* self.processing_commands.add(command_id)
ClaimAdd(set, id) == set \cup {id}

\* The ban handler process_web_commands calls for a command of type ban:
\* it records the ban of the payload's user, or it raises.
BanHandlerResults == {"returned", "raised"}

BanHandlerStore(banned) == banned \cup {Target}

\* complete_unban_command: banned_users.delete_one({"user_id": user_id});
\* with the store unavailable nothing is deleted and the handler returns.
UnbanHandlerStore(banned, storeOk) ==
    IF storeOk THEN banned \ {Target} ELSE banned

\* if not user_id: return False.  complete_unban_command ends at once for
\* a payload without user_id.
PayloadRefused(ty, user) == ty = "unban" /\ user = ""

\* The store's ban list once the handler of a command of type ty has
\* returned.
HandlerStore(ty, banned, storeOk) ==
    CASE ty = "ban"   -> BanHandlerStore(banned)
      [] ty = "unban" -> UnbanHandlerStore(banned, storeOk)
      [] OTHER        -> banned

\* How the dispatch of a command of type ty ends: process_announcement and
\* complete_unban_command catch every exception themselves and return; any
\* other type sets success = False without a handler.
DispatchResults(ty) ==
    CASE ty = "ban"         -> BanHandlerResults
      [] ty \in KnownTypes  -> {"returned"}
      [] OTHER              -> {"unknown"}

\* success_count of process_announcement: the channels the announcement
\* reached, out of the registered ones; -1 for a command of another type.
AnnouncementReach(ty) ==
    IF ty = "announcement" THEN 0..Cardinality(storeChannels) ELSE {-1}

\* The loop body for the next fetched command up to the suspension inside
\* its handler: the dedup check, the type check, the claim, the write of
\* status processing and the start of the dispatch.
Claim(p, procOk, res, storeOk, reached) ==
    /\ pc[p] = "iterating"
    /\ batch[p] # <<>>
    /\ LET id == Head(batch[p])
           ty == cmdType[id]
       IN  /\ batch' = [batch EXCEPT ![p] = Tail(batch[p])]
           /\ IF id = Untyped \/ id \in processing_commands \/ ty = ""
              THEN \* continue: already being processed, or no type
                   UNCHANGED <<lockVars, announcement, relayVars,
                               storeBanned, untypedOlder, cmdType, cmdUser,
                               cmdStatus, cmdError, processing_commands,
                               command_lock, pc, cur, hres, handlerCalls,
                               banHandled, cmdResult, cmdReached, cacheVars,
                               serviceVars>>
              ELSE /\ res \in DispatchResults(ty)
                   /\ reached \in AnnouncementReach(ty)
                   /\ cmdReached' = [cmdReached EXCEPT ![id] = reached]
                   /\ processing_commands' = ClaimAdd(processing_commands, id)
                   /\ cmdStatus' = WriteStatus(cmdStatus, id, "processing", procOk)
                   /\ pc' = [pc EXCEPT ![p] = "handling"]
                   /\ cur' = [cur EXCEPT ![p] = id]
                   /\ hres' = [hres EXCEPT ![p] = res]
                   /\ handlerCalls' =
                        IF ty \in KnownTypes
                        THEN [handlerCalls EXCEPT ![id] = @ + 1]
                        ELSE handlerCalls
                   /\ storeBanned' =
                        IF res = "returned" /\ ~PayloadRefused(ty, cmdUser[id])
                        THEN HandlerStore(ty, storeBanned, storeOk)
                        ELSE storeBanned
                   /\ banHandled' =
                        IF res = "returned" /\ ~PayloadRefused(ty, cmdUser[id])
                        THEN HandlerStore(ty, banHandled, storeOk)
                        ELSE banHandled
                   /\ UNCHANGED <<lockVars, announcement, relayVars,
                                  untypedOlder, cmdType, cmdUser, cmdError,
                                  command_lock, cmdResult, cacheVars,
                                  serviceVars>>

\* Mutant: every dispatch that ends without an exception is recorded as
\* completed.
TerminalAlwaysCompleted(res) == "completed"

\* status = "completed" if success else "failed"; success is False only
\* for a type without a handler.
TerminalStatus(res) == IF res = "unknown" THEN "failed" ELSE "completed"

\* A document without a result field.
NoResult == <<>>

\* A document without an error_message field.
NoError == <<>>

\* error_message = f"Unknown command type: {command_type}"
UnknownTypeError(ty) == <<"Unknown command type", ty>>

\* Mutant: the id stays in the dedup set.
ClaimKeeps(set, id) == set

\* self.processing_commands.discard(command_id)
ClaimDiscard(set, id) == set \ {id}

\* except Exception: print, discard the id; no status is written.
StatusAfterRaise(status, id, ok) == status

\* Mutant: an exception of the handler, or of the status write, ends the
\* for loop.
RemainingDropped(rest, res, ok) == IF res = "raised" \/ ~ok THEN <<>> ELSE rest

\* Both try blocks are inside the for loop: after "except Exception" of
\* the loop body or of the status write the loop goes on with the commands
\* it has not looked at yet.
Remaining(rest, res, ok) == rest

\* The rest of the loop body: the write of the terminal status and the
\* removal of the id from the dedup set.
Finish(p, termOk) ==
    /\ pc[p] = "handling"
    /\ LET id == cur[p]
       IN  /\ cmdStatus' =
                IF hres[p] = "raised"
                THEN StatusAfterRaise(cmdStatus, id, termOk)
                ELSE WriteStatus(cmdStatus, id, TerminalStatus(hres[p]), termOk)
           /\ cmdError' =
                IF hres[p] = "unknown" /\ termOk
                THEN [cmdError EXCEPT ![id] = UnknownTypeError(cmdType[id])]
                ELSE cmdError
           /\ processing_commands' = ClaimDiscard(processing_commands, id)
           /\ pc' = [pc EXCEPT ![p] = "iterating"]
           /\ cur' = [cur EXCEPT ![p] = 0]
           /\ hres' = [hres EXCEPT ![p] = "none"]
           /\ batch' = [batch EXCEPT ![p] = Remaining(batch[p], hres[p], termOk)]
           /\ UNCHANGED <<lockVars, announcement, relayVars, storeBanned,
                          untypedOlder, cmdType, cmdUser, command_lock,
                          handlerCalls, banHandled, cmdResult, cmdReached,
                          cacheVars, serviceVars>>

\* The batch is done: the lock is released and the while loop goes round.
PollEnd(p) ==
    /\ pc[p] = "iterating"
    /\ batch[p] = <<>>
    /\ pc' = [pc EXCEPT ![p] = "idle"]
    /\ command_lock' = "free"
    /\ UNCHANGED <<lockVars, announcement, relayVars, storeBanned,
                   untypedOlder, cmdType, cmdUser, cmdStatus, cmdError,
                   processing_commands, batch, cur, hres, handlerCalls,
                   banHandled, cmdResult, cmdReached, cacheVars, serviceVars>>

\* A run follows each command through at most MaxCalls handler invocations.
Poll ==
    \E p \in Pollers, fetchOk \in BOOLEAN :
        /\ \A id \in CommandIds : handlerCalls[id] < MaxCalls
        /\ PollStart(p, fetchOk)

ClaimNext ==
    \E p \in Pollers, procOk \in BOOLEAN,
       res \in {"returned", "raised", "unknown"}, storeOk \in BOOLEAN,
       reached \in -1..Cardinality(Channels) :
        Claim(p, procOk, res, storeOk, reached)

FinishCurrent == \E p \in Pollers, termOk \in BOOLEAN : Finish(p, termOk)

EndCycle == \E p \in Pollers : PollEnd(p)

(* --------------------- send_crosschat_announcement --------------------- *)

\* A call of send_crosschat_announcement: the list get_channels() gave,
\* the channels the loop has not reached yet, the three values of the
\* returned dict, the channels channel.send succeeded for, and what the
\* call returned ("counts": the dict with the counts, "error": the dict
\* without them).
NoAnnouncement ==
    [pc |-> "idle", channels_list |-> <<>>, todo |-> <<>>, sent_count |-> 0,
     total_channels |-> 0, failed_channels |-> <<>>, delivered |-> {},
     result |-> "none"]

\* What cross_chat_manager.get_channels() can return: the relay channels
\* in any order.
RECURSIVE ListsOf(_)
ListsOf(S) ==
    IF S = {} THEN {<<>>}
    ELSE UNION {{<<c>> \o l : l \in ListsOf(S \ {c})} : c \in S}

ChannelLists == UNION {ListsOf(S) : S \in SUBSET Channels}

\* How the loop body ends for one channel: the embed is sent, get_channel
\* returns None, or int(), the embed or channel.send raises.
SendOutcomes == {"sent", "missing", "raises"}

\* The entry of the call.  An empty message returns the error dict at
\* once; without a cross_chat_manager the counts stay 0; a get_channels()
\* that raises (listOk = FALSE) ends in the outer except.
AnnounceStart(message, hasManager, listOk, list) ==
    /\ announcement.pc # "sending"
    /\ announcement' =
         IF message = "" \/ (hasManager /\ ~listOk)
         THEN [NoAnnouncement EXCEPT !.pc = "returned", !.result = "error"]
         ELSE IF ~hasManager
         THEN [NoAnnouncement EXCEPT !.pc = "returned", !.result = "counts"]
         ELSE [NoAnnouncement EXCEPT !.pc = "sending",
                                     !.channels_list = list,
                                     !.todo = list,
                                     !.total_channels = Len(list)]
    /\ UNCHANGED <<relayVars, storeBanned, queueVars, cacheVars, serviceVars,
                   lockVars>>

\* Mutant: the try is around the loop, a failure ends the delivery.
AfterSendStops(rest, outcome) == IF outcome = "sent" THEN rest ELSE <<>>

\* The try/except is inside the for loop: whatever happened to one
\* channel, the loop goes on with the next.
AfterSend(rest, outcome) == rest

\* The loop body for the next channel of the list.
AnnounceChannel(outcome) ==
    /\ announcement.pc = "sending"
    /\ announcement.todo # <<>>
    /\ LET c == Head(announcement.todo)
       IN  announcement' =
             [announcement EXCEPT
                !.todo = AfterSend(Tail(announcement.todo), outcome),
                !.sent_count = IF outcome = "sent" THEN @ + 1 ELSE @,
                !.delivered = IF outcome = "sent" THEN @ \cup {c} ELSE @,
                !.failed_channels =
                    IF outcome = "sent" THEN @ ELSE Append(@, c)]
    /\ UNCHANGED <<relayVars, storeBanned, queueVars, cacheVars, serviceVars,
                   lockVars>>

\* return {'success': True, 'sent_count': ..., 'total_channels': ...,
\* 'failed_channels': ...}
AnnounceReturn ==
    /\ announcement.pc = "sending"
    /\ announcement.todo = <<>>
    /\ announcement' = [announcement EXCEPT !.pc = "returned",
                                            !.result = "counts"]
    /\ UNCHANGED <<relayVars, storeBanned, queueVars, cacheVars, serviceVars,
                   lockVars>>

(* --------------------------- specifications ---------------------------- *)

\* PerformanceCache.__init__: empty sets, never refreshed.
CacheNew ==
    /\ crosschat_channels = {}
    /\ crosschat_channels_updated = 0
    /\ banned_users = {}
    /\ banned_servers = {}
    /\ bans_updated = 0
    /\ lastRead = NoRead
    /\ lastOp = NoOp
    /\ cache_lock = "free"
    /\ cachePc = [t \in Threads |-> "idle"]

\* A bot that has handled no message yet, with two registered channels.
RelayFresh ==
    /\ announcement = NoAnnouncement
    /\ lastEdit = NoEdit
    /\ banned_data = <<>>
    /\ lastBan = NoBan
    /\ storeBanUntil = [u \in Users |-> -1]
    /\ crosschat_cooldowns = <<>>
    /\ storeChannels = {"c1", "c2"}
    /\ storeLog = 0
    /\ lastMsg = NoMsg
    /\ lastAccept = [u \in Users |-> -1]
    /\ evictedSince = {}
    /\ CacheNew

RelayNew ==
    /\ RelayFresh
    /\ storeBanned = {}
    /\ storeBannedGuilds = {}

RelayInit == now = 0 /\ RelayNew

QueueIdle ==
    /\ cmdError = [i \in CommandIds |-> NoError]
    /\ processing_commands = {}
    /\ command_lock = "free"
    /\ pc = [p \in Pollers |-> "idle"]
    /\ batch = [p \in Pollers |-> <<>>]
    /\ cur = [p \in Pollers |-> 0]
    /\ hres = [p \in Pollers |-> "none"]
    /\ handlerCalls = [i \in CommandIds |-> 0]
    /\ banHandled = {}
    /\ cmdResult = [i \in CommandIds |-> NoResult]
    /\ cmdReached = [i \in CommandIds |-> -1]

\* Every queued command names its user, and the queue holds no older
\* document without a type.
PayloadComplete ==
    /\ cmdUser = [i \in CommandIds |-> Target]
    /\ untypedOlder = 0

\* The control panel has queued two commands of any types; an unban
\* command may have been queued without a user_id, and up to FetchLimit
\* older documents without a type may still be pending.
QueueInit ==
    /\ untypedOlder \in 0..FetchLimit
    /\ cmdType \in [CommandIds -> CommandTypes]
    /\ cmdUser \in [CommandIds -> {Target, ""}]
    /\ \A i \in CommandIds : cmdUser[i] = "" => cmdType[i] = "unban"
    /\ cmdStatus = [i \in CommandIds |-> "pending"]
    /\ QueueIdle

Init == RelayInit /\ QueueInit

Next == Poll \/ ClaimNext \/ FinishCurrent \/ EndCycle

\* The command processor alone.
Spec == Init /\ [][Next]_vars

\* The cooldown gate: messages of three users, no collaborator fails.
GateMessage ==
    \E u \in Users, ch \in Channels, isBot \in BOOLEAN :
        OnMessage(u, ch, isBot, "allow", "processed", TRUE, TRUE, TRUE, TRUE)

GateInit ==
    /\ PayloadComplete
    /\ RelayInit
    /\ cmdType = [i \in CommandIds |-> ""]
    /\ cmdStatus = [i \in CommandIds |-> "pending"]
    /\ QueueIdle

GateNext == GateMessage \/ Tick

SpecGate == GateInit /\ [][GateNext]_vars

(* ----------------------- the command processor ------------------------- *)

\* Poll tasks that hold a claim on command id: claimed, handler not finished.
InFlight(id) == {p \in Pollers : pc[p] = "handling" /\ cur[p] = id}

\* C1: at any time at most one poll cycle holds a claim on a command id,
\* processing_commands holds exactly the ids with a claim in flight, and no
\* step taken while an id is in processing_commands invokes its handler.
C1_OneClaimPerCommand ==
    /\ [](\A id \in CommandIds :
            /\ Cardinality(InFlight(id)) <= 1
            /\ (id \in processing_commands <=> InFlight(id) # {}))
    /\ [][\A id \in CommandIds :
            id \in processing_commands =>
                handlerCalls'[id] = handlerCalls[id]]_vars

\* A claim is in flight while the store still lists the command as pending
\* (the write of status processing failed): the case the dedup set is for.
C1_Witness ==
    \E id \in CommandIds :
        /\ id \in processing_commands
        /\ InFlight(id) # {}
        /\ cmdStatus[id] = "pending"

\* C2 (as claimed): the stored status only moves pending -> processing ->
\* completed | failed, and every processing attempt that ends has written
\* a terminal status.
C2_StatusMachine ==
    [][\A id \in CommandIds :
          /\ cmdStatus'[id] # cmdStatus[id] =>
                <<cmdStatus[id], cmdStatus'[id]>> \in
                    {<<"pending", "processing">>,
                     <<"processing", "completed">>,
                     <<"processing", "failed">>}
          /\ (id \in processing_commands /\ id \notin processing_commands') =>
                cmdStatus'[id] \in Terminal]_vars

\* C3 (as claimed): the handler of a command runs exactly once, whatever
\* store writes fail.
C3_HandlerOnce ==
    \A id \in CommandIds :
        /\ handlerCalls[id] <= 1
        /\ cmdStatus[id] = "completed" => handlerCalls[id] = 1

\* C10 (as claimed): a processing attempt whose handler raised ends with
\* the command in status failed.
C10_RaiseMarksFailed ==
    [][\A p \in Pollers :
          (pc[p] = "handling" /\ hres[p] = "raised" /\ pc'[p] # "handling") =>
              cmdStatus'[cur[p]] = "failed"]_vars

C12_DedupSetEmptied ==
    /\ [](\A id \in processing_commands : InFlight(id) # {})
    /\ [][\A p \in Pollers, termOk \in BOOLEAN :
             Finish(p, termOk) => cur[p] \notin processing_commands']_vars
    /\ [][\A p \in Pollers :
             PollEnd(p) => processing_commands' = {}]_vars

\* A cycle is over in which a handler raised: the command is left in status
\* processing, and the dedup set is empty.
C12_Witness ==
    /\ processing_commands = {}
    /\ \A p \in Pollers : pc[p] = "idle"
    /\ \E id \in CommandIds :
          cmdStatus[id] = "processing" /\ handlerCalls[id] = 1

\* C13 (as claimed): an announcement that reached some but not all relay
\* channels ends completed, never failed, and the stored command records
\* the result: channels reached out of the total.
C13_PartialAnnouncementRecorded ==
    \A id \in CommandIds :
        (/\ cmdType[id] = "announcement"
         /\ cmdReached[id] > 0
         /\ cmdReached[id] < Cardinality(storeChannels)
         /\ cmdStatus[id] \in Terminal) =>
            /\ cmdStatus[id] = "completed"
            /\ cmdResult[id] = <<cmdReached[id], Cardinality(storeChannels)>>

\* C14 (as claimed): when a poll cycle is over the task waits for its
\* interval before it is ready to start the next cycle.
C14_WaitsBetweenCycles ==
    [][\A p \in Pollers : PollEnd(p) => pc'[p] = "waiting"]_vars

\* C15: at most one poll task is inside a poll cycle, it is the holder of
\* command_lock, and so at most one handler is in progress.
C15_CycleUnderLock ==
    /\ Cardinality({p \in Pollers : pc[p] # "idle"}) <= 1
    /\ \A p \in Pollers : pc[p] # "idle" => command_lock = p
    /\ Cardinality({p \in Pollers : pc[p] = "handling"}) <= 1

\* One task is inside a handler, the other is at the lock with a command
\* still pending in the store.
C15_Witness ==
    \E p \in Pollers, q \in Pollers :
        /\ p # q
        /\ pc[p] = "handling"
        /\ pc[q] = "idle"
        /\ command_lock = p
        /\ \E id \in CommandIds : cmdStatus[id] = "pending" /\ cmdType[id] # ""

(* --------------------------- the cooldown gate -------------------------- *)

\* A message of u in ch as the gate specification sends it.
GateStep(u, ch, isBot) ==
    OnMessage(u, ch, isBot, "allow", "processed", TRUE, TRUE, TRUE, TRUE)

\* C4 (as claimed): a message of u less than crosschat_cooldown_duration
\* after u's last accepted one is rejected, a message at or after it is
\* accepted.
C4_CooldownExact ==
    [][\A u \in Users, ch \in Channels :
          (GateStep(u, ch, FALSE) /\ SourceCheck(ch)) =>
            /\ (lastAccept[u] >= 0 /\
                now - lastAccept[u] < crosschat_cooldown_duration) =>
                   lastMsg'.outcome = "rate_limited"
            /\ (lastAccept[u] < 0 \/
                now - lastAccept[u] >= crosschat_cooldown_duration) =>
                   lastMsg'.outcome # "rate_limited"]_vars

\* C4 (amended): as C4, except that a user whose cooldown entry the cleanup
\* has removed since the last accepted message is accepted again at once.
C4_CooldownUnlessEvicted ==
    [][\A u \in Users, ch \in Channels :
          (GateStep(u, ch, FALSE) /\ SourceCheck(ch)) =>
            /\ (lastAccept[u] >= 0 /\ u \notin evictedSince /\
                now - lastAccept[u] < crosschat_cooldown_duration) =>
                   lastMsg'.outcome = "rate_limited"
            /\ (lastAccept[u] < 0 \/ u \in evictedSince \/
                now - lastAccept[u] >= crosschat_cooldown_duration) =>
                   lastMsg'.outcome # "rate_limited"]_vars

\* A user was accepted, waited out the cooldown and was accepted again, and
\* the latest message was one the gate rejected.
C4_Witness ==
    /\ lastMsg.outcome = "rate_limited"
    /\ \E u \in Users :
          /\ lastAccept[u] >= crosschat_cooldown_duration
          /\ HasEntry(crosschat_cooldowns, u)
          /\ now - lastAccept[u] < crosschat_cooldown_duration

\* Outcomes of a message the cooldown gate let through.
PastGate == {"banned", "blocked", "relayed"}

\* C29: the table never tracks more users than the high-water mark once a
\* message is handled.  A message the gate accepts that takes the table
\* over the mark removes, in the step that writes its timestamp, exactly
\* CooldownEvictCount entries, none of them newer than an entry that stays;
\* every other step removes no entry.
C29_CleanupBounded ==
    /\ [](Len(crosschat_cooldowns) <= CooldownHighWater)
    /\ [][Tick => crosschat_cooldowns' = crosschat_cooldowns]_vars
    /\ [][\A u \in Users, ch \in Channels, isBot \in BOOLEAN :
            GateStep(u, ch, isBot) =>
              LET touched == Touch(crosschat_cooldowns, u, now)
                  kept == TrackedUsers(crosschat_cooldowns')
                  gone == TrackedUsers(touched) \ kept
              IN  IF lastMsg'.outcome \in PastGate
                  THEN IF Len(touched) > CooldownHighWater
                       THEN /\ Cardinality(gone) = CooldownEvictCount
                            /\ \A r \in gone, k \in kept :
                                  LastSeen(touched, r) <= LastSeen(touched, k)
                            /\ \A k \in kept :
                                  LastSeen(crosschat_cooldowns', k) =
                                      LastSeen(touched, k)
                       ELSE crosschat_cooldowns' = touched
                  ELSE crosschat_cooldowns' = crosschat_cooldowns]_vars

\* A cleanup has removed an entry that was older than the entries left, and
\* the table is as long as a cleanup leaves it.
C29_Witness ==
    /\ lastMsg.outcome \in PastGate
    /\ Len(crosschat_cooldowns) = CooldownHighWater + 1 - CooldownEvictCount
    /\ \E u \in evictedSince :
          /\ ~HasEntry(crosschat_cooldowns, u)
          /\ \A k \in TrackedUsers(crosschat_cooldowns) :
                lastAccept[u] < LastSeen(crosschat_cooldowns, k)

\* C30 (as claimed): the gate decides on a message of u as it does in the
\* run in which only u sends messages and u's last accepted message is the
\* same: the decision depends on that message and on the clock alone.
C30_OthersDoNotInterfere ==
    [][\A u \in Users, ch \in Channels :
          (GateStep(u, ch, FALSE) /\ SourceCheck(ch)) =>
              (lastMsg'.outcome = "rate_limited") =
                  SoloRejects(lastAccept, u, now)]_vars

\* C30 (amended): the gate decides as in the run of u alone unless the
\* cleanup, set off by messages of other users, has removed u's entry since
\* u's last accepted message; then it accepts.
C30_AlikeUnlessEvicted ==
    [][\A u \in Users, ch \in Channels :
          (GateStep(u, ch, FALSE) /\ SourceCheck(ch)) =>
              IF u \in evictedSince
              THEN lastMsg'.outcome \in PastGate
              ELSE (lastMsg'.outcome = "rate_limited") =
                       SoloRejects(lastAccept, u, now)]_vars

\* Another user was accepted after u, and the gate has rejected a message
\* of u within the cooldown of u's last accepted one, as it does when u is
\* alone.
C30_Witness ==
    /\ lastMsg.outcome = "rate_limited"
    /\ \E u \in Users, v \in Users :
          /\ u # v
          /\ u \notin evictedSince
          /\ lastAccept[u] >= 0
          /\ lastAccept[v] > lastAccept[u]
          /\ now - lastAccept[u] < crosschat_cooldown_duration
          /\ HasEntry(crosschat_cooldowns, v)

\* C5: a message the cooldown gate rejects leaves crosschat_cooldowns as it
\* was: no entry is added, changed or removed.
C5_RejectKeepsCooldowns ==
    [][\A u \in Users, ch \in Channels, isBot \in BOOLEAN :
          (GateStep(u, ch, isBot) /\ lastMsg'.outcome = "rate_limited") =>
              crosschat_cooldowns' = crosschat_cooldowns]_vars

\* The gate has just rejected a message while it tracks two users.
C5_Witness ==
    /\ lastMsg.outcome = "rate_limited"
    /\ Len(crosschat_cooldowns) = 2

\* C6: a message in a channel that is not a registered relay channel is
\* dropped at the source check: nothing is written to the store, nothing is
\* deleted or relayed, and the cooldown table stays as it was.
C6_UnregisteredUntouched ==
    [][\A u \in Users, ch \in Channels, isBot \in BOOLEAN :
          (GateStep(u, ch, isBot) /\ ch \notin storeChannels) =>
              /\ lastMsg'.outcome \in {"ignored_author", "ignored_channel"}
              /\ ~lastMsg'.deleted /\ ~lastMsg'.logged /\ ~lastMsg'.relayed
              /\ storeLog' = storeLog
              /\ storeBanned' = storeBanned
              /\ cmdStatus' = cmdStatus
              /\ crosschat_cooldowns' = crosschat_cooldowns
              /\ lastAccept' = lastAccept]_vars

\* A message was dropped at the source check while users are in cooldown.
C6_Witness ==
    /\ lastMsg.outcome = "ignored_channel"
    /\ Len(crosschat_cooldowns) > 0

(* ------------------------- ban commands and relay ----------------------- *)

\* A message of the ban target as the ban specification sends it.
TargetStep(ch) ==
    OnMessage(Target, ch, FALSE, "allow", "processed", TRUE, TRUE, TRUE, TRUE)

\* C9 (as claimed): once a ban command for the target has been handled,
\* every message of the target in a relay channel ends with outcome banned.
C9_BannedOutcome ==
    [][\A ch \in Channels :
          (TargetStep(ch) /\ SourceCheck(ch) /\ Target \in banHandled) =>
              lastMsg'.outcome = "banned"]_vars

\* C9 (amended): such a message is never relayed; it is rejected by the
\* cooldown gate when it comes within the cooldown, as banned otherwise.
C9_BannedNotRelayed ==
    [][\A ch \in Channels :
          (TargetStep(ch) /\ SourceCheck(ch) /\ Target \in banHandled) =>
              /\ ~lastMsg'.relayed
              /\ lastMsg'.outcome =
                    IF CooldownRejects(crosschat_cooldowns, Target, now)
                    THEN "rate_limited" ELSE "banned"]_vars

\* The ban command is completed and a later message of the target was
\* rejected as banned.
C9_Witness ==
    /\ lastMsg.outcome = "banned"
    /\ Target \in banHandled
    /\ \E id \in CommandIds :
          cmdType[id] = "ban" /\ cmdStatus[id] = "completed"

\* The target and the poll task, interleaved: a ban command and, behind it,
\* an unban command are queued.
TargetMessage ==
    \E ch \in Channels : TargetStep(ch)

BanInit ==
    /\ PayloadComplete
    /\ RelayInit
    /\ cmdType = [i \in CommandIds |-> IF i = 1 THEN "ban" ELSE "unban"]
    /\ cmdStatus = [i \in CommandIds |-> "pending"]
    /\ QueueIdle

BanNext ==
    Poll \/ ClaimNext \/ FinishCurrent \/ EndCycle \/ TargetMessage \/ Tick

SpecBan == BanInit /\ [][BanNext]_vars

(* ------------------------------ the caches ------------------------------ *)

HalfTtl == crosschat_channels_ttl \div 2

CacheClock == \E d \in {HalfTtl, HalfTtl + 1} : CacheTick(d)

CacheGetChannels == \E refreshOk \in BOOLEAN : get_crosschat_channels(refreshOk)

\* Channels the administrative operations of the cache specification act
\* on: one the store lists at the start and one it does not.
AdminChannels == {"c1", "c3"}

CacheAdd == \E c \in AdminChannels : add_crosschat_channel(c)

CacheRemove == \E c \in AdminChannels : remove_crosschat_channel(c)

SetupOn ==
    \E c \in AdminChannels, slowOk \in BOOLEAN, first \in AdminChannels,
       refreshOk \in BOOLEAN, logged \in BOOLEAN :
        SetupEnable(c, slowOk, first, refreshOk, logged)

SetupOff == \E c \in AdminChannels, logged \in BOOLEAN : SetupDisable(c, logged)

CacheGetBans == \E refreshOk \in BOOLEAN : get_banned_users(refreshOk)

\* A new cache at CacheStart on the wall clock; no command is queued.
CacheInit ==
    /\ PayloadComplete
    /\ now = CacheStart
    /\ RelayNew
    /\ cmdType = [i \in CommandIds |-> ""]
    /\ cmdStatus = [i \in CommandIds |-> "pending"]
    /\ QueueIdle

CacheNext ==
    \/ CacheGetChannels
    \/ CacheAdd
    \/ CacheRemove
    \/ invalidate_crosschat_channels
    \/ SetupOn
    \/ SetupOff
    \/ CacheClock

\* The relay-channel cache and the store's registry.
SpecCache == CacheInit /\ [][CacheNext]_vars

BanCacheNext ==
    \/ CacheGetBans
    \/ invalidate_bans
    \/ Ban
    \/ Unban
    \/ CacheClock

\* The ban cache, the store's ban list and the /ban and /unban commands.
SpecBanCache == CacheInit /\ [][BanCacheNext]_vars

\* C7 (as claimed): a read of the channel cache that comes right after
\* add_crosschat_channel(c) returns a set with c in it, and one that comes
\* right after remove_crosschat_channel(c) returns a set without c,
\* whatever time has passed since the last refresh.
C7_AddRemoveVisible ==
    [][\A refreshOk \in BOOLEAN :
          get_crosschat_channels(refreshOk) =>
              /\ lastOp.op = "add" => lastOp.arg \in lastRead'.value
              /\ lastOp.op = "remove" => lastOp.arg \notin lastRead'.value]_vars

\* C16: a read whose refresh fails returns the set as it was before the
\* attempt, and the cached set is unchanged.
C16_FailedRefreshKeepsSet ==
    [][get_crosschat_channels(FALSE) =>
          /\ crosschat_channels' = crosschat_channels
          /\ lastRead'.value = crosschat_channels]_vars

\* A read has just come back from a failed refresh with a set that is not
\* empty and not what the store lists.
C16_Witness ==
    /\ lastOp.op = "get"
    /\ lastRead.op = "channels"
    /\ lastRead.refresh = "failed"
    /\ lastRead.value # {}
    /\ lastRead.value # storeChannels

\* C17: the read that follows invalidate_crosschat_channels goes to the
\* store, and returns what the store lists when the store can be read,
\* however recently the cache was refreshed.
C17_InvalidateForcesRefresh ==
    [][\A refreshOk \in BOOLEAN :
          (get_crosschat_channels(refreshOk) /\ lastOp.op = "invalidate") =>
              /\ lastRead'.refresh = IF refreshOk THEN "ok" ELSE "failed"
              /\ refreshOk => lastRead'.value = storeChannels]_vars

\* A cache within its TTL was invalidated and the next read refreshed it.
C17_Witness ==
    /\ lastOp.op = "get"
    /\ lastRead.op = "channels"
    /\ lastRead.after = "fresh"
    /\ lastRead.refresh = "ok"

\* C18: a read goes to the store exactly when more than the TTL has passed
\* since the last refresh; within the TTL it returns the cached set and
\* changes nothing, past it a refresh that succeeds makes the read return
\* what the store lists.
C18_StoreReadIffExpired ==
    [][\A refreshOk \in BOOLEAN :
          get_crosschat_channels(refreshOk) =>
              LET past == now - crosschat_channels_updated >
                              crosschat_channels_ttl
              IN  /\ lastRead'.refresh # "none" <=> past
                  /\ ~past =>
                        /\ lastRead'.value = crosschat_channels
                        /\ crosschat_channels' = crosschat_channels
                        /\ crosschat_channels_updated' =
                               crosschat_channels_updated
                  /\ (past /\ refreshOk) =>
                        /\ lastRead'.value = storeChannels
                        /\ crosschat_channels_updated' = now]_vars

\* A read came exactly one TTL after the last refresh and did not go to
\* the store, although the store lists other channels than the cache.
C18_Witness ==
    /\ lastOp.op = "get"
    /\ lastRead.op = "channels"
    /\ lastRead.refresh = "none"
    /\ now - crosschat_channels_updated = crosschat_channels_ttl
    /\ lastRead.value # storeChannels

\* C8 (as claimed): with the store readable, a read of the ban cache that
\* comes right after a recorded /ban of u returns a set with u in it, and
\* one that comes right after a recorded /unban of u a set without u.
C8_BanVisibleAtOnce ==
    [][get_banned_users(TRUE) =>
          /\ lastOp.op = "ban" => lastOp.arg \in lastRead'.value
          /\ lastOp.op = "unban" => lastOp.arg \notin lastRead'.value]_vars

(* ------------------------ ban gate and moderation ----------------------- *)

\* Messages of every kind: any author, channel, moderation answer, fan-out
\* result and outcome of the deletion and of the private notice.
\* One of the results the fan-out can give for a message in ch.
SomeResult(ch) == CHOOSE r \in FanOutResults(ch) : TRUE

\* The deletion and the notice matter where on_message deletes (cooldown
\* and ban rejections), the moderation answer, the fan-out result and the
\* reaction where it does not; the write to the message log can fail for
\* every message that passes the cooldown gate.
RelayMessage ==
    \E u \in Users, ch \in Channels :
        \/ OnMessage(u, ch, TRUE, "allow", SomeResult(ch), TRUE, TRUE, TRUE,
                     TRUE)
        \/ \E delOk \in BOOLEAN, dmOk \in BOOLEAN, logOk \in BOOLEAN :
              OnMessage(u, ch, FALSE, "allow", SomeResult(ch), delOk, dmOk,
                        TRUE, logOk)
        \/ \E policy \in PolicyActions, result \in FanOutResults(ch),
              reactOk \in BOOLEAN :
              OnMessage(u, ch, FALSE, policy, result, TRUE, TRUE, reactOk,
                        TRUE)

\* The store may list a user and a guild as banned when the bot starts.
BanGateInit ==
    /\ PayloadComplete
    /\ now = 0
    /\ RelayFresh
    /\ storeBanned \in {{}, {"u1"}}
    /\ storeBannedGuilds \in {{}, {"g1"}}
    /\ cmdType = [i \in CommandIds |-> ""]
    /\ cmdStatus = [i \in CommandIds |-> "pending"]
    /\ QueueIdle

BanGateNext == RelayMessage

\* on_message past the cooldown gate: the ban check and the moderation
\* check.
SpecBanGate == BanGateInit /\ [][BanGateNext]_vars

\* C19 (as claimed): a message that reaches the ban check while its author
\* or its guild is banned is not handed to the fan-out and ends with
\* outcome banned.
C19_BannedNeverHandedOver ==
    lastMsg.subject # "none" =>
        /\ ~lastMsg.relayed
        /\ lastMsg.outcome = "banned"

\* C20 (as claimed): a message for which the moderation check answers
\* delete or warn is stopped: it ends blocked and is not handed to the
\* fan-out.
C20_NonAllowStops ==
    lastMsg.policy \in {"delete", "warn"} =>
        /\ ~lastMsg.relayed
        /\ lastMsg.outcome = "blocked"

\* C21 (as claimed): every message handed to the fan-out carries an
\* acknowledgment reaction when on_message is done with it.
C21_OneAcknowledgment ==
    lastMsg.relayed => lastMsg.reaction # "none"

\* C22 (as claimed): on_message returns normally whatever collaborator call
\* fails.
C22_NeverRaises ==
    ~lastMsg.raised

\* A message of u in ch whose deletion and private notice succeed as given.
RejectStep(u, ch, delOk, dmOk) ==
    OnMessage(u, ch, FALSE, "allow", SomeResult(ch), delOk, dmOk, TRUE, TRUE)

\* C23 (as claimed): a message rejected by the cooldown gate is deleted when
\* the deletion works, its author is notified when the private notice
\* works, and it is neither handed to the fan-out nor written to the log.
C23_RejectedDeletedNotified ==
    [][\A u \in Users, ch \in Channels, delOk \in BOOLEAN, dmOk \in BOOLEAN :
          (/\ RejectStep(u, ch, delOk, dmOk)
           /\ SourceCheck(ch)
           /\ CooldownRejects(crosschat_cooldowns, u, now)) =>
              /\ lastMsg'.outcome = "rate_limited"
              /\ lastMsg'.deleted = delOk
              /\ lastMsg'.notified = dmOk
              /\ ~lastMsg'.relayed
              /\ ~lastMsg'.logged
              /\ storeLog' = storeLog]_vars

(* --------------------------- incomplete payload ------------------------- *)

\* C27 (as claimed): the processing attempt of an unban command without
\* user_id ends with the command in status failed and an error message
\* stored on it.
C27_MissingFieldFails ==
    [][\A p \in Pollers :
          (/\ Finish(p, TRUE)
           /\ PayloadRefused(cmdType[cur[p]], cmdUser[cur[p]])) =>
              /\ cmdStatus'[cur[p]] = "failed"
              /\ cmdError'[cur[p]] # NoError]_vars

(* ----------------------------- one ban each ---------------------------- *)

ExecBan ==
    \E u \in Users, duration \in BanDurations :
        execute_ban_command(u, duration)

ExecUnban == \E u \in Users : execute_unban_command(u)

BanListNext == ExecBan \/ ExecUnban

\* Ban and unban commands on the service ban list, in any order.
SpecBanList == GateInit /\ [][BanListNext]_vars

C25_OneChannelPerGuild ==
    \A c \in storeChannels, d \in storeChannels :
        GuildOf(c) = GuildOf(d) => c = d

(* --------------------------------- edits -------------------------------- *)

\* The content before every edit.
Draft == "a"

\* Edits of every kind; the result of process_edit and of the reaction
\* matter for an edit of a user that changes the content.
EditMessage ==
    \E u \in Users, ch \in Channels :
        \/ OnMessageEdit(u, ch, TRUE, Draft, "b", "processed", TRUE)
        \/ OnMessageEdit(u, ch, FALSE, Draft, Draft, "processed", TRUE)
        \/ \E after \in Contents \ {Draft}, result \in EditResults,
              reactOk \in BOOLEAN :
              OnMessageEdit(u, ch, FALSE, Draft, after, result, reactOk)

EditNext == EditMessage \/ TargetMessage

\* Edits of all users and messages of one user, who may be banned.
SpecEdit == BanGateInit /\ [][EditNext]_vars

\* C24: an edit leaves the cooldown table, the ban list, the message log
\* and the record of the latest message as they are; it is propagated
\* exactly when its author is no bot, its content changed and its channel
\* is registered, whoever is banned or in cooldown; an edit that is not
\* propagated gets no reaction.
C24_EditSkipsGates ==
    [][\A u \in Users, ch \in Channels, isBot \in BOOLEAN,
          before \in {Draft}, after \in Contents :
          (\E result \in EditResults, reactOk \in BOOLEAN :
              OnMessageEdit(u, ch, isBot, before, after, result, reactOk)) =>
              /\ crosschat_cooldowns' = crosschat_cooldowns
              /\ storeBanned' = storeBanned
              /\ storeLog' = storeLog
              /\ lastMsg' = lastMsg
              /\ lastEdit'.propagated =
                    (~isBot /\ before # after /\ ch \in storeChannels)
              /\ ~lastEdit'.propagated => lastEdit'.reaction = "none"]_vars

\* The edit of a banned author who is within the cooldown was propagated.
C24_Witness ==
    /\ lastEdit.propagated
    /\ lastEdit.author \in storeBanned
    /\ CooldownRejects(crosschat_cooldowns, lastEdit.author, now)

\* C28 (as claimed): a read of the ban cache that has just been refreshed
\* from the store does not report a user whose stored ban has run out.
C28_ExpiredBanInactive ==
    (lastOp.op = "get" /\ lastRead.op = "banned_users"
       /\ lastRead.refresh = "ok") =>
        \A u \in lastRead.value : ~BanExpired(u, now)

(* ------------------------- the lock of the cache ------------------------ *)

\* Two threads call the readers, and add, remove and invalidate, which
\* take the lock for an in-memory change and go ahead when it is free.
LockNext ==
    \/ \E t \in Threads : GetChannelsEnter(t)
    \/ \E t \in Threads, refreshOk \in BOOLEAN : GetChannelsReturn(t, refreshOk)
    \/ \E t \in Threads : GetBansEnter(t)
    \/ \E t \in Threads, refreshOk \in BOOLEAN : GetBansReturn(t, refreshOk)
    \/ (\E t \in Threads : LockFreeFor(t)) /\ CacheAdd
    \/ (\E t \in Threads : LockFreeFor(t)) /\ CacheRemove
    \/ (\E t \in Threads : LockFreeFor(t)) /\ invalidate_crosschat_channels
    \/ (\E t \in Threads : LockFreeFor(t)) /\ invalidate_bans
    \/ CacheClock

\* Two threads on one cache, the readers step by step.
SpecLock == CacheInit /\ [][LockNext]_vars

\* C31 (as claimed): while the store read of a refresh is in progress the
\* lock of the cache is free, so that no other caller of the cache waits
\* for the read to end.
C31_StoreReadOutsideLock ==
    \A t \in Threads : cachePc[t] # "idle" => cache_lock = "free"

(* ----------------------- one failure, one command ----------------------- *)

\* C32: within one poll cycle a handler that raises, or a status write
\* that fails, does not keep the remaining commands of the fetched batch
\* from being claimed and dispatched: the loop looks at the fetched
\* commands one by one, claims and dispatches each that has a type and is
\* not being processed, whether or not the write of status processing
\* succeeds, keeps the rest of the batch when a dispatch ends in whatever
\* way, and the cycle ends only when no fetched command is left.
C32_FailureKeepsBatch ==
    [][\A p \in Pollers :
          /\ (pc[p] = "handling" /\ pc'[p] # "handling") =>
                (pc'[p] = "iterating" /\ batch'[p] = batch[p])
          /\ (pc[p] = "iterating" /\ pc'[p] = "idle") => batch[p] = <<>>
          /\ (pc[p] = "iterating" /\ batch'[p] # batch[p]) =>
                LET id == Head(batch[p])
                IN  /\ batch'[p] = Tail(batch[p])
                    /\ (/\ id # Untyped
                        /\ cmdType[id] # ""
                        /\ id \notin processing_commands) =>
                          /\ pc'[p] = "handling"
                          /\ cur'[p] = id
                          /\ id \in processing_commands'
                          /\ cmdType[id] \in KnownTypes =>
                                handlerCalls'[id] = handlerCalls[id] + 1]_vars

\* The processing of the first command failed (its handler raised, or the
\* write of its terminal status failed), which left it in status
\* processing, and the second command of the same batch has been claimed
\* and is with its handler.
C32_Witness ==
    \E p \in Pollers :
        /\ command_lock = p
        /\ pc[p] = "handling"
        /\ cur[p] = 2
        /\ cmdType[2] \in KnownTypes
        /\ cmdType[1] = "ban"
        /\ cmdStatus[1] = "processing"
        /\ 1 \notin processing_commands
        /\ handlerCalls[1] = 1
        /\ handlerCalls[2] = 1
        /\ storeBanned = {}

(* --------------------------- every command served ----------------------- *)

\* The command processor with a store that stays available: every fetch
\* and every status write succeeds.
LiveNext ==
    \/ \E p \in Pollers : PollStart(p, TRUE)
    \/ \E p \in Pollers, res \in {"returned", "raised", "unknown"},
          reached \in -1..Cardinality(Channels) : Claim(p, TRUE, res, TRUE, reached)
    \/ \E p \in Pollers : Finish(p, TRUE)
    \/ EndCycle

\* ... and a poll loop that keeps running: "while not self.is_closed()"
\* goes from each step of a cycle to the next and from each cycle to the
\* next one.
SpecLive == Init /\ [][LiveNext]_vars /\ WF_vars(LiveNext)

\* C33 (as claimed): with the store available and the poll loop running,
\* every pending command that has an id and a type is eventually claimed
\* and written as processing, whatever else is pending, older documents
\* without a type included.
C33_PendingEventuallyClaimed ==
    \A id \in CommandIds :
        (cmdStatus[id] = "pending" /\ cmdType[id] # "") ~>
            (cmdStatus[id] = "processing")

(* ------------------------ the entry just written ------------------------ *)

\* C34: right after on_message has accepted a message of user u, with or
\* without a cleanup, the cooldown table has an entry for u and the entry
\* holds the time of that message (the clock never goes back).
C34_OwnEntryKept ==
    [][\A u \in Users, ch \in Channels :
          (GateStep(u, ch, FALSE) /\ lastMsg'.outcome \in PastGate) =>
              /\ HasEntry(crosschat_cooldowns', u)
              /\ LastSeen(crosschat_cooldowns', u) = now]_vars

\* Three users were accepted at the same clock value and the third accept
\* ran the cleanup, which removed one of the two entries that were as old
\* as the new one.
C34_Witness ==
    /\ lastMsg.outcome \in PastGate
    /\ \A u \in Users : lastAccept[u] = now
    /\ Cardinality(evictedSince) = 1
    /\ Len(crosschat_cooldowns) = CooldownHighWater
    /\ \A i \in 1..Len(crosschat_cooldowns) : crosschat_cooldowns[i].ts = now

(* ---------------------- refreshes of the two caches --------------------- *)

\* A new cache; the store lists no banned user and may list a banned guild.
RefreshInit ==
    /\ PayloadComplete
    /\ now = CacheStart
    /\ RelayFresh
    /\ storeBanned = {}
    /\ storeBannedGuilds \in {{}, {"g1"}}
    /\ cmdType = [i \in CommandIds |-> ""]
    /\ cmdStatus = [i \in CommandIds |-> "pending"]
    /\ QueueIdle

\* Reads of both caches, and invalidations of the ban cache, while the
\* store changes under them: a user is banned, a channel is disabled.
RefreshNext ==
    \/ CacheGetChannels
    \/ CacheGetBans
    \/ \E refreshOk \in BOOLEAN : get_banned_servers(refreshOk)
    \/ invalidate_bans
    \/ Target \notin storeBanned /\ SlashBan(Target, TRUE)
    \/ SetupDisable("c1", TRUE)
    \/ CacheClock

SpecRefresh == RefreshInit /\ [][RefreshNext]_vars

ChannelsStale == Expired(now, crosschat_channels_updated, crosschat_channels_ttl)

BansStale == Expired(now, bans_updated, bans_ttl)

\* C35: a refresh of the channel cache or of the ban cache that fails
\* leaves the refreshed-at time and the snapshot of that cache as they
\* were; a cache that is past its TTL stays so through every step that is
\* not a successful refresh, every get_* call on it attempts the refresh,
\* and a refresh that succeeds replaces the snapshot by what the store
\* lists and sets the refreshed-at time to the clock.
C35_FailedRefreshRetried ==
    [][/\ \A refreshOk \in BOOLEAN :
            (get_crosschat_channels(refreshOk) /\ ChannelsStale) =>
                /\ lastRead'.refresh = IF refreshOk THEN "ok" ELSE "failed"
                /\ ~refreshOk =>
                      /\ crosschat_channels_updated' = crosschat_channels_updated
                      /\ crosschat_channels' = crosschat_channels
                /\ refreshOk =>
                      /\ crosschat_channels_updated' = now
                      /\ crosschat_channels' = storeChannels
       /\ \A refreshOk \in BOOLEAN :
            ((get_banned_users(refreshOk) \/ get_banned_servers(refreshOk))
                /\ BansStale) =>
                /\ lastRead'.refresh = IF refreshOk THEN "ok" ELSE "failed"
                /\ ~refreshOk =>
                      /\ bans_updated' = bans_updated
                      /\ banned_users' = banned_users
                      /\ banned_servers' = banned_servers
                /\ refreshOk =>
                      /\ bans_updated' = now
                      /\ banned_users' = storeBanned
       /\ (ChannelsStale /\ lastRead'.refresh # "ok") => ChannelsStale'
       /\ (BansStale /\ lastRead'.refresh # "ok") => BansStale']_vars

\* The latest read found a channel cache that had been refreshed before
\* and was past its TTL, and its refresh failed: the cache is still past
\* its TTL and holds a snapshot that is not what the store lists.  The ban
\* cache, refreshed before, is past its TTL with an outdated snapshot too.
C35_Witness ==
    /\ lastOp.op = "get"
    /\ lastRead.op = "channels"
    /\ lastRead.refresh = "failed"
    /\ crosschat_channels_updated > 0
    /\ ChannelsStale
    /\ crosschat_channels # storeChannels
    /\ bans_updated > 0
    /\ BansStale
    /\ banned_users # storeBanned

\* C36: the set of banned users and the set of banned servers come from
\* the same refresh.  A step changes either set, or moves their one
\* refreshed-at time to anything but 0, only as a successful refresh,
\* which replaces both sets by what the store lists and sets the time to
\* the clock; a read of either set on a cache past its TTL refreshes both
\* when the store can be read and changes neither when it cannot; and
\* after invalidate_bans the cache is past its TTL, so that the next read
\* of either set is such a read.
C36_BanSetsTogether ==
    [][/\ (\/ banned_users' # banned_users
           \/ banned_servers' # banned_servers
           \/ bans_updated' \notin {bans_updated, 0}) =>
              /\ banned_users' = storeBanned
              /\ banned_servers' = storeBannedGuilds
              /\ bans_updated' = now
              /\ lastRead'.refresh = "ok"
       /\ \A refreshOk \in BOOLEAN :
            ((get_banned_users(refreshOk) \/ get_banned_servers(refreshOk))
                /\ BansStale) =>
                IF refreshOk
                THEN /\ banned_users' = storeBanned
                     /\ banned_servers' = storeBannedGuilds
                     /\ bans_updated' = now
                ELSE UNCHANGED <<banned_users, banned_servers, bans_updated>>
       /\ invalidate_bans => BansStale']_vars

\* Both sets were filled by one refresh, the store has changed since, and
\* the cache has been invalidated within its TTL.
C36_Witness ==
    /\ bans_updated = 0
    /\ banned_users = {}
    /\ storeBanned = {Target}
    /\ banned_servers = {"g1"}
    /\ now - CacheStart <= bans_ttl

(* ------------------------- log first, then the ban ---------------------- *)

\* C37: the ban check of on_message comes after the cooldown update and
\* after the write to the message log.  Every message that on_message
\* rejects as banned has passed the cooldown gate, has set the cooldown
\* entry of its author, who is banned, to the time of the message, and
\* has been handed to log_crosschat_message (which stores it unless the
\* write fails).
C37_BanCheckAfterLog ==
    [][lastMsg'.outcome = "banned" =>
          /\ lastMsg'.logged
          /\ storeLog' >= storeLog
          /\ \E u \in Users :
                /\ IsUserBanned(u)
                /\ ~CooldownRejects(crosschat_cooldowns, u, now)
                /\ HasEntry(crosschat_cooldowns', u)
                /\ LastSeen(crosschat_cooldowns', u) = now
                /\ lastAccept'[u] = now]_vars

\* The latest message was rejected as banned after it had been written to
\* the message log and had given its author, who is banned, a cooldown
\* entry.
C37_Witness ==
    /\ lastMsg.outcome = "banned"
    /\ lastMsg.subject = "user"
    /\ lastMsg.logged
    /\ storeLog = 1
    /\ \E u \in storeBanned :
          /\ HasEntry(crosschat_cooldowns, u)
          /\ LastSeen(crosschat_cooldowns, u) = now
          /\ lastAccept[u] = now

(* ----------------------------- announcements ---------------------------- *)

AnnounceNext ==
    \/ \E message \in {"", "m"}, hasManager \in BOOLEAN, listOk \in BOOLEAN,
          list \in ChannelLists : AnnounceStart(message, hasManager, listOk, list)
    \/ \E outcome \in SendOutcomes : AnnounceChannel(outcome)
    \/ AnnounceReturn

\* Calls of send_crosschat_announcement, one after the other.
SpecAnnounce == GateInit /\ [][AnnounceNext]_vars

\* The elements of a list.
Elements(l) == {l[i] : i \in 1..Len(l)}

\* C38: when send_crosschat_announcement returns its counts, every channel
\* of the list has been counted exactly once, as sent when its send
\* succeeded and as failed otherwise, also the channels that come after a
\* failing one, and sent_count + len(failed_channels) = total_channels.
C38_AnnouncementCounts ==
    (announcement.pc = "returned" /\ announcement.result = "counts") =>
        /\ announcement.sent_count + Len(announcement.failed_channels)
               = announcement.total_channels
        /\ announcement.total_channels = Len(announcement.channels_list)
        /\ announcement.sent_count = Cardinality(announcement.delivered)
        /\ Len(announcement.failed_channels)
               = Cardinality(Elements(announcement.failed_channels))
        /\ announcement.delivered \cap Elements(announcement.failed_channels) = {}
        /\ announcement.delivered \cup Elements(announcement.failed_channels)
               = Elements(announcement.channels_list)

\* An announcement for three channels has returned: the first channel
\* failed and the two after it were delivered to.
C38_Witness ==
    /\ announcement.pc = "returned"
    /\ announcement.result = "counts"
    /\ announcement.total_channels = 3
    /\ announcement.sent_count = 2
    /\ announcement.failed_channels = <<announcement.channels_list[1]>>
====
